---------------------------- MODULE Spec2Model ----------------------------
(***************************************************************************)
(* Behavioral cloning: the telemetry server and its start-up (drive.py),   *)
(* and dataset loading and sample weighting for training (model.py).       *)
(***************************************************************************)
EXTENDS Integers, Sequences, FiniteSets, TLC

VARIABLES
    events,     \* drive.py: events the socketio server has dispatched, in order
    emitted,    \* drive.py: sio.emit calls made so far, in order
    path,       \* drive.py __main__: args.model, as a sequence of characters
    jpath,      \* drive.py __main__: file the model definition is read from
    wpath,      \* drive.py __main__: file the weights are read from
    mpc,        \* drive.py __main__: position in the start-up code
    datasets,   \* model.py load_npz: the datasets argument, (file, angle_key) each
    split,      \* model.py load_npz: the split argument, in tenths
    seedState,  \* model.py: generator state np.random.seed(SEED) produces
    rng,        \* model.py: state of numpy's global generator
    images,     \* model.py load_npz: local images
    angle,      \* model.py load_npz: local angle
    li,         \* model.py load_npz: position of the loop over datasets
    ret,        \* model.py main: what load_npz returned
    lpc,        \* model.py main: position in load_npz / train_model
    y_train,    \* model.py train_model: the y_train argument
    y_weights,  \* model.py train_model: local y_weights
    tpc         \* model.py train_model: position

relayVars == <<events, emitted>>
mainVars == <<path, jpath, wpath, mpc>>
loadVars == <<datasets, split, seedState, rng, images, angle, li, ret, lpc>>
trainVars == <<y_train, y_weights, tpc>>

vars == <<relayVars, mainVars, loadVars, trainVars>>

(***************************************************************************)
(* Bounds.                                                                 *)
(***************************************************************************)
MaxEvents == 3      \* events dispatched in one run of the server
NumClients == 2     \* session ids
MaxPred == 1        \* model.predict results range over -MaxPred..MaxPred tenths
MaxDirs == 1        \* directories in a model path
MaxDatasets == 2    \* entries of the datasets list
MaxSamples == 2     \* samples in one dataset file
RngBits == 3        \* the generator has 2^RngBits states
MaxTrain == 2       \* training samples handed to train_model
FracBits == 8       \* floats are multiples of 2^-FracBits
MantBits == 3       \* significant bits of a float
AngleMax == 12      \* small angles range up to AngleMax * 2^-FracBits

(***************************************************************************)
(* Python values.                                                          *)
(***************************************************************************)
\* None, and a Numpy array holding the elements a
None == [isNone |-> TRUE, a |-> <<>>]
Arr(a) == [isNone |-> FALSE, a |-> a]

\* model.py and its training run not started
LoadIdle ==
    /\ datasets = <<>> /\ split = 0 /\ seedState = 0 /\ rng = 0
    /\ images = None /\ angle = None /\ li = 1
    /\ ret = [X_train |-> None, y_train |-> None, X_test |-> None, y_test |-> None]
    /\ lpc = "idle"
TrainIdle == y_train = <<>> /\ y_weights = <<>> /\ tpc = "idle"

(***************************************************************************)
(* Python text helpers.                                                    *)
(***************************************************************************)
RECURSIVE Concat(_)
Concat(ss) == IF ss = <<>> THEN <<>> ELSE Head(ss) \o Concat(Tail(ss))

\* s.startswith(t)
StartsWith(s, t) == Len(s) >= Len(t) /\ SubSeq(s, 1, Len(t)) = t

\* s.split(sep)[0] for a one character separator: the text before the first sep
RECURSIVE SplitFirst(_, _)
SplitFirst(s, sep) ==
    IF s = <<>> \/ Head(s) = sep THEN <<>>
    ELSE <<Head(s)>> \o SplitFirst(Tail(s), sep)

\* s.replace(old, new): every non-overlapping occurrence, left to right
RECURSIVE Replace(_, _, _)
Replace(s, old, new) ==
    IF s = <<>> THEN <<>>
    ELSE IF StartsWith(s, old)
         THEN new \o Replace(SubSeq(s, Len(old) + 1, Len(s)), old, new)
         ELSE <<Head(s)>> \o Replace(Tail(s), old, new)

\* int.__str__
IntStr(n) == ToString(n)

\* digits of a fraction given in millionths, trailing zeros dropped
RECURSIVE FracDigits(_, _)
FracDigits(f, width) ==
    IF width = 0 \/ (f = 0 /\ width < 6) THEN ""
    ELSE LET unit == 10 ^ (width - 1)
         IN  ToString(f \div unit) \o FracDigits(f % unit, width - 1)

\* float.__str__ of the float whose value is m millionths
FloatStr(m) ==
    LET a == IF m < 0 THEN -m ELSE m
    IN  (IF m < 0 THEN "-" ELSE "") \o ToString(a \div 1000000) \o "."
            \o FracDigits(a % 1000000, 6)

(***************************************************************************)
(* drive.py: the telemetry server.                                         *)
(***************************************************************************)
Sids == 1..NumClients
PredVals == {p * 100000 : p \in -MaxPred..MaxPred}   \* predictions, millionths

\* angle_factor = 180. / 25. / np.pi * 1.5, in thousandths
angle_factor == 3438
\* throttle = 0.5, in millionths
throttle_const == 500000

\* Python values handed to send_control
PyInt(n) == [type |-> "int", val |-> n]
PyFloat(m) == [type |-> "float", val |-> m]
PyStr(v) == IF v.type = "int" THEN IntStr(v.val) ELSE FloatStr(v.val)

send_control_retry(steering_angle, throttle) ==
    LET e == [event |-> "steer",
              data |-> [steering_angle |-> PyStr(steering_angle),
                        throttle |-> PyStr(throttle)],
              skip_sid |-> TRUE]
    IN  <<e, e>>

\* the sio.emit calls send_control makes
send_control(steering_angle, throttle) ==
    << [event |-> "steer",
        data |-> [steering_angle |-> PyStr(steering_angle),
                  throttle |-> PyStr(throttle)],
        skip_sid |-> TRUE] >>

\* calls made while handling event number n, each tagged with that number
Tagged(calls, n) == [i \in 1..Len(calls) |-> [call |-> calls[i], cause |-> n]]

\* @sio.on('connect')
connect(sid) ==
    /\ Len(events) < MaxEvents
    /\ events' = Append(events, [name |-> "connect", sid |-> sid, pred |-> 0])
    /\ emitted' = emitted \o Tagged(send_control(PyInt(0), PyInt(0)), Len(events) + 1)
    /\ UNCHANGED <<mainVars, loadVars, trainVars>>

\* @sio.on('telemetry'); pred is float(model.predict(...)) for the frame in data
telemetry(sid, pred) ==
    /\ Len(events) < MaxEvents
    /\ events' = Append(events, [name |-> "telemetry", sid |-> sid, pred |-> pred])
    /\ LET steering_angle == PyFloat((pred * angle_factor) \div 1000)
           throttle == PyFloat(throttle_const)
       IN  emitted' = emitted \o Tagged(send_control(steering_angle, throttle),
                                        Len(events) + 1)
    /\ UNCHANGED <<mainVars, loadVars, trainVars>>

RelayInit ==
    /\ events = <<>>
    /\ emitted = <<>>
    /\ path = <<>> /\ jpath = <<>> /\ wpath = <<>> /\ mpc = "serving"
    /\ LoadIdle /\ TrainIdle

RelayNext ==
    \/ \E sid \in Sids : connect(sid)
    \/ \E sid \in Sids, pred \in PredVals : telemetry(sid, pred)

SpecRelay == RelayInit /\ [][RelayNext]_vars

Dot == "."
Slash == "/"
json == <<"j", "s", "o", "n">>
h5 == <<"h", "5">>

Prefixes == { <<>>, <<Dot, Slash>>, <<Slash>> }
DirNames == { <<"l", "o", "g", "s">>, json, <<"v", "1", Dot, "2">> }
BaseNames == { <<"m", "o", "d", "e", "l">>, json, <<"m", Dot, "v", "2">>,
               <<"m", "y", "j", "s", "o", "n">> }

DirSeqs == UNION { [1..k -> DirNames] : k \in 0..MaxDirs }

\* prefix, directories, base name and the json extension, as one path
MakePath(prefix, dirs, base) ==
    prefix \o Concat([i \in 1..Len(dirs) |-> dirs[i] \o <<Slash>>])
           \o base \o <<Dot>> \o json

\* command lines that name a model definition json file
ModelPaths ==
    { MakePath(pre, dirs, base) : pre \in Prefixes, dirs \in DirSeqs, base \in BaseNames }

\* root = path.split('.')[0]; jpath = root + '.json'; open(jpath)
LoadDescription ==
    /\ mpc = "parsed"
    /\ LET root == SplitFirst(path, Dot)
       IN  jpath' = root \o <<Dot>> \o json
    /\ mpc' = "described"
    /\ UNCHANGED <<path, wpath, relayVars, loadVars, trainVars>>

\* wpath = args.model.replace('json', 'h5'); model.load_weights(wpath)
LoadWeights ==
    /\ mpc = "described"
    /\ wpath' = Replace(path, json, h5)
    /\ mpc' = "loaded"
    /\ UNCHANGED <<path, jpath, relayVars, loadVars, trainVars>>

\* eventlet.wsgi.server(...)
Serve ==
    /\ mpc = "loaded"
    /\ mpc' = "serving"
    /\ UNCHANGED <<path, jpath, wpath, relayVars, loadVars, trainVars>>

MainInit ==
    /\ path \in ModelPaths
    /\ jpath = <<>> /\ wpath = <<>>
    /\ mpc = "parsed"
    /\ events = <<>> /\ emitted = <<>>
    /\ LoadIdle /\ TrainIdle

MainNext == LoadDescription \/ LoadWeights \/ Serve

SpecMain == MainInit /\ [][MainNext]_vars

\* the path with only its extension replaced
WithExtension(p, ext) == SubSeq(p, 1, Len(p) - Len(json)) \o ext

\* C2: for every command line path naming a model definition json file, the
\* definition is read from that file and the weights are read from the same
\* path with only the json extension replaced by h5.
ModelFilesOnGivenPath ==
    /\ mpc \in {"described", "loaded", "serving"} => jpath = path
    /\ mpc \in {"loaded", "serving"} => wpath = WithExtension(path, h5)

(***************************************************************************)
(* model.py: load_npz, and the call of train_model on its result.          *)
(***************************************************************************)
AngleKeys == {"angle_med6", "angle_med10"}
ANGLE_KEY == "angle_med10"

\* split arguments, in tenths: proportions from 0 to 1.0
SplitVals == {0, 3, 5, 9, 10}

\* a dataset: the number of samples in its file, and the angle key to read
DatasetArgs == [samples : 0..MaxSamples, angle_key : AngleKeys]
DatasetLists == UNION { [1..k -> DatasetArgs] : k \in 1..MaxDatasets }

\* np.load(path)['images'] of dataset d: sample k of the file, pixels in 0..255
NpzImages(d) ==
    [k \in 1..datasets[d].samples |-> [ds |-> d, k |-> k, maxval |-> 255]]
\* np.load(path)[key] of dataset d: the angle of sample k stored under key
NpzAngles(d, key) ==
    [k \in 1..datasets[d].samples |-> [ds |-> d, k |-> k, key |-> key]]

\* an image of zeros, as ndarray.resize fills in
ZeroImage == [ds |-> 0, k |-> 0, maxval |-> 255]

\* images.resize(new_shape), in place: old content kept, the rest zeros
Resize(a, n) == [i \in 1..n |-> IF i <= Len(a) THEN a[i] ELSE ZeroImage]

\* a[start:, ...] = vals   (start counts from 0)
AssignFrom(a, start, vals) ==
    [i \in 1..Len(a) |-> IF i > start THEN vals[i - start] ELSE a[i]]

load_step_global_key(imgs, ang, d) ==
    IF imgs.isNone
    THEN [images |-> Arr(NpzImages(d)), angle |-> Arr(NpzAngles(d, ANGLE_KEY))]
    ELSE LET shape0 == Len(imgs.a)
             resized == Resize(imgs.a, shape0 + Len(NpzImages(d)))
         IN  [images |-> Arr(AssignFrom(resized, shape0, NpzImages(d))),
              angle |-> Arr(ang.a \o NpzAngles(d, ANGLE_KEY))]

\* one pass of the loop `for path, angle_key in datasets`, on dataset d
load_step(imgs, ang, d) ==
    IF imgs.isNone
    THEN [images |-> Arr(NpzImages(d)),
          angle |-> Arr(NpzAngles(d, datasets[d].angle_key))]
    ELSE LET shape0 == Len(imgs.a)
             resized == Resize(imgs.a, shape0 + Len(NpzImages(d)))
         IN  [images |-> Arr(AssignFrom(resized, shape0, NpzImages(d))),
              angle |-> Arr(ang.a \o NpzAngles(d, datasets[d].angle_key))]

\* numpy's generator, as a linear congruential generator on 2^RngBits states
RngMod == 2 ^ RngBits
RngStates == 0..(RngMod - 1)
RngNext(s) == (5 * s + 3) % RngMod
\* rk_interval(max, state): a draw from 0..max
rk_interval(max, s) == s % (max + 1)

\* np.random.shuffle(x): for i in reversed(range(1, n)): swap x[i], x[j]
RECURSIVE ShuffleFrom(_, _, _)
ShuffleFrom(x, i, s) ==
    IF i < 1 THEN [a |-> x, rng |-> s]
    ELSE LET s1 == RngNext(s)
             j == rk_interval(i, s1)
         IN  ShuffleFrom([x EXCEPT ![i + 1] = x[j + 1], ![j + 1] = x[i + 1]],
                         i - 1, s1)
shuffle(x, s) == ShuffleFrom(x, Len(x) - 1, s)

np_shuffle_pair_no_restore(x, y, s) ==
    LET sx == shuffle(x, s)
        sy == shuffle(y, sx.rng)
    IN  [x |-> sx.a, y |-> sy.a, rng |-> sy.rng]

\* np_shuffle_pair(x, y) with the generator in state s
np_shuffle_pair(x, y, s) ==
    LET rng_state == s
        sx == shuffle(x, s)
        sy == shuffle(y, rng_state)
    IN  [x |-> sx.a, y |-> sy.a, rng |-> sy.rng]

\* a[lo:hi] of Python, 0 <= lo <= hi <= len(a)
Slice(a, lo, hi) == SubSeq(a, lo + 1, hi)

split_drop_one(imgs, ang, sp) ==
    IF sp < 10
    THEN LET n == Len(imgs)
             idx == (n * sp) \div 10
         IN  [X_train |-> Arr(Slice(imgs, 0, idx)),
              y_train |-> Arr(Slice(ang, 0, idx)),
              X_test |-> Arr(Slice(imgs, IF idx < n THEN idx + 1 ELSE idx, n)),
              y_test |-> Arr(Slice(ang, IF idx < n THEN idx + 1 ELSE idx, n))]
    ELSE [X_train |-> Arr(imgs), y_train |-> Arr(ang),
          X_test |-> None, y_test |-> None]

\* the `Split datasets` part of load_npz; sp is split in tenths
split_datasets(imgs, ang, sp) ==
    IF sp < 10
    THEN LET n == Len(imgs)
             idx == (n * sp) \div 10
         IN  [X_train |-> Arr(Slice(imgs, 0, idx)),
              y_train |-> Arr(Slice(ang, 0, idx)),
              X_test |-> Arr(Slice(imgs, idx, n)),
              y_test |-> Arr(Slice(ang, idx, n))]
    ELSE [X_train |-> Arr(imgs), y_train |-> Arr(ang),
          X_test |-> None, y_test |-> None]

\* load_npz: one dataset loaded and merged
LoadDataset ==
    /\ lpc = "loading"
    /\ li <= Len(datasets)
    /\ LET r == load_step(images, angle, li)
       IN  images' = r.images /\ angle' = r.angle
    /\ li' = li + 1
    /\ lpc' = IF li = Len(datasets) THEN "scaling" ELSE "loading"
    /\ UNCHANGED <<datasets, split, seedState, rng, ret, relayVars, mainVars, trainVars>>

\* load_npz: images /= 255.
ScaleImages ==
    /\ lpc = "scaling"
    /\ images' = Arr([i \in 1..Len(images.a) |-> [images.a[i] EXCEPT !.maxval = 1]])
    /\ lpc' = "shuffling"
    /\ UNCHANGED <<datasets, split, seedState, rng, angle, li, ret, relayVars,
                   mainVars, trainVars>>

\* load_npz: np.random.seed(SEED); np_shuffle_pair(images, angle)
ShufflePair ==
    /\ lpc = "shuffling"
    /\ LET r == np_shuffle_pair(images.a, angle.a, seedState)
       IN  /\ images' = Arr(r.x)
           /\ angle' = Arr(r.y)
           /\ rng' = r.rng
    /\ lpc' = "splitting"
    /\ UNCHANGED <<datasets, split, seedState, li, ret, relayVars, mainVars, trainVars>>

\* load_npz: the split and the return
SplitAndReturn ==
    /\ lpc = "splitting"
    /\ ret' = split_datasets(images.a, angle.a, split)
    /\ lpc' = "returned"
    /\ UNCHANGED <<datasets, split, seedState, rng, images, angle, li, relayVars,
                   mainVars, trainVars>>

\* train_model, up to print(X_test.shape[0], 'test samples')
TrainModelInfo ==
    /\ lpc = "returned"
    /\ lpc' = IF ret.X_train.isNone \/ ret.X_test.isNone
              THEN "AttributeError" ELSE "training"
    /\ UNCHANGED <<datasets, split, seedState, rng, images, angle, li, ret,
                   relayVars, mainVars, trainVars>>

LoadInit ==
    /\ datasets \in DatasetLists
    /\ split \in SplitVals
    /\ seedState \in RngStates
    /\ rng = 0
    /\ images = None /\ angle = None /\ li = 1
    /\ ret = [X_train |-> None, y_train |-> None, X_test |-> None, y_test |-> None]
    /\ lpc = "loading"
    /\ events = <<>> /\ emitted = <<>>
    /\ path = <<>> /\ jpath = <<>> /\ wpath = <<>> /\ mpc = "idle"
    /\ TrainIdle

LoadNext ==
    LoadDataset \/ ScaleImages \/ ShufflePair \/ SplitAndReturn \/ TrainModelInfo

SpecLoad == LoadInit /\ [][LoadNext]_vars

RECURSIVE SamplesBefore(_)
\* n_1 + ... + n_(d-1)
SamplesBefore(d) ==
    IF d <= 1 THEN 0 ELSE SamplesBefore(d - 1) + datasets[d - 1].samples

\* C3: once every listed dataset is loaded and before the shuffle, images and
\* angle both have n_1+...+n_k entries, and sample k of dataset d sits at index
\* n_1+...+n_(d-1)+k of both, its angle read under that dataset's own key.
MergedEveryDataset ==
    lpc \in {"scaling", "shuffling"} =>
        /\ ~images.isNone /\ ~angle.isNone
        /\ Len(images.a) = SamplesBefore(Len(datasets) + 1)
        /\ Len(angle.a) = SamplesBefore(Len(datasets) + 1)
        /\ \A d \in 1..Len(datasets) : \A k \in 1..datasets[d].samples :
              /\ images.a[SamplesBefore(d) + k].ds = d
              /\ images.a[SamplesBefore(d) + k].k = k
              /\ angle.a[SamplesBefore(d) + k] =
                    [ds |-> d, k |-> k, key |-> datasets[d].angle_key]

MergedWitness ==
    /\ lpc = "scaling"
    /\ Len(datasets) = 2
    /\ datasets[1].samples = 2 /\ datasets[1].angle_key = "angle_med10"
    /\ datasets[2].samples = 2 /\ datasets[2].angle_key = "angle_med6"
    /\ Len(images.a) = 4
    /\ images.a[4] = [ds |-> 2, k |-> 2, maxval |-> 255]
    /\ angle.a[4] = [ds |-> 2, k |-> 2, key |-> "angle_med6"]

\* C4: with split < 1.0 the N shuffled samples are cut into a training part of
\* int(N*split) samples and a validation part of the other N - int(N*split):
\* the parts share no sample, together they are all the samples, each once,
\* and X and y of a part have the same length.
SplitIsPartition ==
    (lpc \in {"returned", "training"} /\ split < 10) =>
        LET n == Len(images.a)
            Xtr == ret.X_train.a
            Xte == ret.X_test.a
        IN  /\ ~ret.X_train.isNone /\ ~ret.y_train.isNone
            /\ ~ret.X_test.isNone /\ ~ret.y_test.isNone
            /\ Len(Xtr) = (n * split) \div 10
            /\ Len(Xte) = n - (n * split) \div 10
            /\ Len(ret.y_train.a) = Len(Xtr)
            /\ Len(ret.y_test.a) = Len(Xte)
            /\ Xtr \o Xte = images.a
            /\ ret.y_train.a \o ret.y_test.a = angle.a
            /\ \A i \in 1..Len(Xtr) : \A j \in 1..Len(Xte) : Xtr[i] # Xte[j]

SplitWitness ==
    /\ lpc = "returned"
    /\ split = 9
    /\ Len(images.a) = 4
    /\ Len(ret.X_train.a) = 3 /\ Len(ret.y_train.a) = 3
    /\ Len(ret.X_test.a) = 1 /\ Len(ret.y_test.a) = 1
    /\ ret.X_test.a[1] = images.a[4]

\* C5: load_npz returns four Numpy arrays whatever the value of split, so
\* train_model, which reads X_test.shape, can be called on its result.
LoadReturnsFourArrays ==
    /\ lpc \in {"returned", "training", "AttributeError"} =>
          /\ ~ret.X_train.isNone /\ ~ret.y_train.isNone
          /\ ~ret.X_test.isNone /\ ~ret.y_test.isNone
    /\ lpc # "AttributeError"

\* the (x[i], y[i]) pairs
PairsOf(x, y) == [i \in 1..Len(x) |-> <<x[i], y[i]>>]
\* p and q hold the same elements, each as many times: q is p permuted
Permuted(p, q) ==
    /\ Len(p) = Len(q)
    /\ \A i \in 1..Len(p) :
          Cardinality({j \in 1..Len(p) : p[j] = p[i]})
              = Cardinality({j \in 1..Len(q) : q[j] = p[i]})

\* C6: np_shuffle_pair applies one permutation to both arrays: the pairs
\* (x'[i], y'[i]) after the call are the pairs (x[i], y[i]) before it,
\* permuted, so every (image, angle) pair is still a pair.
ShuffleKeepsPairs ==
    [][lpc = "shuffling" =>
          Permuted(PairsOf(images.a, angle.a), PairsOf(images'.a, angle'.a))]_vars

ShuffleWitness ==
    /\ lpc = "splitting"
    /\ Len(images.a) = 4
    /\ images.a[1] # [ds |-> 1, k |-> 1, maxval |-> 1]
    /\ images.a[4] # [ds |-> 2, k |-> 2, maxval |-> 1]
    /\ \A i \in 1..4 : /\ angle.a[i].ds = images.a[i].ds
                       /\ angle.a[i].k = images.a[i].k

(***************************************************************************)
(* model.py: train_model, the sample weights.  Floats are binary floating  *)
(* point numbers of MantBits significant bits, held as integer multiples   *)
(* of 2^-FracBits; every operation rounds to nearest, ties to even.        *)
(***************************************************************************)
ANGLE_WEIGHT == 10
One == 2 ^ FracBits

Abs(n) == IF n < 0 THEN -n ELSE n

RECURSIVE BitLen(_)
BitLen(n) == IF n = 0 THEN 0 ELSE 1 + BitLen(n \div 2)

\* the float nearest to n (n in units of 2^-FracBits)
Round(n) ==
    LET a == Abs(n)
        q == 2 ^ (BitLen(a) - MantBits)
        down == (a \div q) * q
        r == a - down
        m == IF BitLen(a) <= MantBits THEN a
             ELSE IF 2 * r < q THEN down
             ELSE IF 2 * r > q THEN down + q
             ELSE IF (a \div q) % 2 = 0 THEN down ELSE down + q
    IN  IF n < 0 THEN -m ELSE m

IsFloat(n) == Round(n) = n

\* angles of the training set: small ones, and ones near full lock
AngleVals ==
    { a \in (-One)..One :
        /\ IsFloat(a)
        /\ Abs(a) <= AngleMax \/ Abs(a) >= One - One \div 8 }

TrainSets == UNION { [1..n -> AngleVals] : n \in 0..MaxTrain }

sample_weights_no_abs(y) ==
    [i \in 1..Len(y) |-> Round(One + Round(ANGLE_WEIGHT * y[i]))]

\* y_weights = np.ones_like(y_train) + ANGLE_WEIGHT * np.abs(y_train)
sample_weights(y) ==
    [i \in 1..Len(y) |-> Round(One + Round(ANGLE_WEIGHT * Abs(y[i])))]

\* train_model: the training weights
ComputeWeights ==
    /\ tpc = "start"
    /\ y_weights' = sample_weights(y_train)
    /\ tpc' = "weighted"
    /\ UNCHANGED <<y_train, relayVars, mainVars, loadVars>>

\* train_model: model.fit_generator(datagen.flow(..., sample_weight=y_weights))
FitGenerator ==
    /\ tpc = "weighted"
    /\ tpc' = "fitting"
    /\ UNCHANGED <<y_train, y_weights, relayVars, mainVars, loadVars>>

TrainInit ==
    /\ y_train \in TrainSets
    /\ y_weights = <<>>
    /\ tpc = "start"
    /\ events = <<>> /\ emitted = <<>>
    /\ path = <<>> /\ jpath = <<>> /\ wpath = <<>> /\ mpc = "idle"
    /\ LoadIdle

TrainNext == ComputeWeights \/ FitGenerator

SpecTrain == TrainInit /\ [][TrainNext]_vars

\* 1 + ANGLE_WEIGHT*|a|, and w being that value up to the rounding of the
\* product and of the sum
ExactWeight(a) == One + ANGLE_WEIGHT * Abs(a)
IsRounded(w, a) == Abs(w - ExactWeight(a)) * 2 ^ MantBits <= 2 * ExactWeight(a)

\* C7: every training sample has one weight, 1 + ANGLE_WEIGHT*|angle| (as the
\* floats compute it): it is at least 1, it is 1 exactly when the angle is 0,
\* it is the same for a and -a, and it is strictly larger for a sample with a
\* larger |angle|.
WeightsOneOnlyAtZeroAndStrict ==
    tpc \in {"weighted", "fitting"} =>
        /\ Len(y_weights) = Len(y_train)
        /\ \A i \in 1..Len(y_train) :
              /\ IsRounded(y_weights[i], y_train[i])
              /\ y_weights[i] >= One
              /\ y_weights[i] = One <=> y_train[i] = 0
        /\ \A i, j \in 1..Len(y_train) :
              /\ Abs(y_train[i]) = Abs(y_train[j]) => y_weights[i] = y_weights[j]
              /\ Abs(y_train[i]) > Abs(y_train[j]) => y_weights[i] > y_weights[j]

\* C7, amended: every training sample has one weight, 1 + ANGLE_WEIGHT*|angle|
\* (as the floats compute it): it is at least 1, it is 1 when the angle is 0
\* (and for angles so small that the sum rounds to 1), it is the same for a
\* and -a, and it is not smaller for a sample with a larger |angle|.
WeightsRoundedAndMonotone ==
    tpc \in {"weighted", "fitting"} =>
        /\ Len(y_weights) = Len(y_train)
        /\ \A i \in 1..Len(y_train) :
              /\ IsRounded(y_weights[i], y_train[i])
              /\ y_weights[i] >= One
              /\ y_train[i] = 0 => y_weights[i] = One
        /\ \A i, j \in 1..Len(y_train) :
              /\ Abs(y_train[i]) = Abs(y_train[j]) => y_weights[i] = y_weights[j]
              /\ Abs(y_train[i]) > Abs(y_train[j]) => y_weights[i] >= y_weights[j]

WeightsWitness ==
    /\ tpc = "weighted"
    /\ Len(y_train) = 2
    /\ y_train[1] = -AngleMax
    /\ y_train[2] = 1
    /\ y_weights[1] > One + ANGLE_WEIGHT * (AngleMax - 1)
    /\ y_weights[2] = One

=============================================================================
